---- MODULE Spec2Model ----
(***************************************************************************)
(* SpendWise expense API (backend/index.js) over the expenses table        *)
(* (backend/init.sql).                                                     *)
(*                                                                         *)
(* Strings are sequences of one-character strings, so that trim, parseFloat *)
(* and parseInt are computed character by character as JavaScript does.    *)
(* Numbers are integers counted in thousandths (1005 is 1.005), so that    *)
(* the NUMERIC(10, 2) column's rounding to two decimals is visible.        *)
(*                                                                         *)
(* A handler runs from its entry to its next await in one step; the query  *)
(* it awaits runs, or throws, in the step that resumes it.  A response is  *)
(* held in last until its finish event, and the next handler step runs     *)
(* after that event, so every response is the value of last in some state. *)
(*                                                                         *)
(* Spec is concurrent clients over a few request bodies; SpecInputs is one *)
(* client over every combination of the input values.                      *)
(***************************************************************************)
EXTENDS Integers, Sequences, FiniteSets, Bags, TLC

VARIABLES
    expenses,         \* rows of the expenses table
    expenses_id_seq,  \* next value of the SERIAL sequence behind id
    now,              \* CURRENT_TIMESTAMP of the database
    inflight,         \* per connection: the request whose handler is suspended at an await
    last,             \* the most recent response sent
    deleted,          \* ids for which a delete has been answered 200
    roundTrip,        \* the last successful create and whether its id was deleted since
    httpRequestsTotal,  \* the counter http_requests_total: a bag of label sets
    httpErrorsTotal,    \* the counter http_errors_total: a bag of label sets
    app,              \* the React state of the App component in the browser
    requests,         \* the fetches of the browser that are in flight: a bag
    timers            \* the setTimeout callbacks of the browser that are pending: a bag

\* the counters of the metrics middleware
metrics == <<httpRequestsTotal, httpErrorsTotal>>

\* the page in the browser
browser == <<app, requests, timers>>

\* the server and the record of its last round trip
server == <<expenses, expenses_id_seq, now, inflight, last, deleted, roundTrip>>

vars == <<expenses, expenses_id_seq, now, inflight, last, deleted, roundTrip,
          httpRequestsTotal, httpErrorsTotal, app, requests, timers>>

\* ---------------------------------------------------------------- bounds
NumClients == 2   \* connections that can have a request in flight at once
MaxId == 2        \* ids the sequence hands out before creates stop
MaxClock == 1     \* last tick of the database clock
MaxInFlight == 3  \* fetches the browser can have in flight at once
MaxTimers == 1    \* setTimeout callbacks the browser can have pending at once
MaxFinished == 2  \* responses the counters count before requests stop

Clients == 1..NumClients

\* ------------------------------------------------------- JavaScript values
Undefined == [t |-> "undefined", s |-> <<>>, n |-> 0]

Null == [t |-> "null", s |-> <<>>, n |-> 0]

Str(chars) == [t |-> "string", s |-> chars, n |-> 0]

Num(thousandths) == [t |-> "number", s |-> <<>>, n |-> thousandths]

\* JavaScript truthiness: undefined, null, "" and 0 are falsy
Truthy(v) ==
    CASE v.t = "undefined" -> FALSE
      [] v.t = "null" -> FALSE
      [] v.t = "string" -> v.s # <<>>
      [] v.t = "number" -> v.n # 0
      [] OTHER -> TRUE

WhiteSpace == {" ", "\t", "\n"}

RECURSIVE TrimStart(_)
TrimStart(s) ==
    IF s # <<>> /\ Head(s) \in WhiteSpace THEN TrimStart(Tail(s)) ELSE s

RECURSIVE TrimEnd(_)
TrimEnd(s) ==
    IF s # <<>> /\ s[Len(s)] \in WhiteSpace
    THEN TrimEnd(SubSeq(s, 1, Len(s) - 1))
    ELSE s

\* a trim that strips the leading white space only
trim_StartOnly(s) == TrimStart(s)

\* String.prototype.trim
trim(s) == TrimEnd(TrimStart(s))

DigitValue ==
    ("0" :> 0) @@ ("1" :> 1) @@ ("2" :> 2) @@ ("3" :> 3) @@ ("4" :> 4) @@
    ("5" :> 5) @@ ("6" :> 6) @@ ("7" :> 7) @@ ("8" :> 8) @@ ("9" :> 9)

DigitChar == <<"0", "1", "2", "3", "4", "5", "6", "7", "8", "9">>

IsDigit(c) == c \in DOMAIN DigitValue

\* the longest prefix of s made of decimal digits
RECURSIVE DigitPrefix(_)
DigitPrefix(s) ==
    IF s # <<>> /\ IsDigit(Head(s))
    THEN <<Head(s)>> \o DigitPrefix(Tail(s))
    ELSE <<>>

RECURSIVE DecimalValue(_)
DecimalValue(digits) ==
    IF digits = <<>> THEN 0
    ELSE DecimalValue(SubSeq(digits, 1, Len(digits) - 1)) * 10
         + DigitValue[digits[Len(digits)]]

\* the first three fraction digits, in thousandths
FractionValue(digits) ==
    (IF Len(digits) >= 1 THEN DigitValue[digits[1]] * 100 ELSE 0)
    + (IF Len(digits) >= 2 THEN DigitValue[digits[2]] * 10 ELSE 0)
    + (IF Len(digits) >= 3 THEN DigitValue[digits[3]] ELSE 0)

RECURSIVE NatToString(_)
NatToString(k) ==
    IF k < 10 THEN <<DigitChar[k + 1]>>
    ELSE NatToString(k \div 10) \o <<DigitChar[(k % 10) + 1]>>

FractionToString(f) ==
    IF f = 0 THEN <<>>
    ELSE IF f % 100 = 0 THEN <<".", DigitChar[(f \div 100) + 1]>>
    ELSE IF f % 10 = 0
         THEN <<".", DigitChar[(f \div 100) + 1], DigitChar[((f \div 10) % 10) + 1]>>
    ELSE <<".", DigitChar[(f \div 100) + 1], DigitChar[((f \div 10) % 10) + 1],
           DigitChar[(f % 10) + 1]>>

\* Number.prototype.toString of a finite number
NumberToString(n) ==
    LET a == IF n < 0 THEN 0 - n ELSE n
    IN  (IF n < 0 THEN <<"-">> ELSE <<>>)
        \o NatToString(a \div 1000) \o FractionToString(a % 1000)

\* ToString, applied by parseFloat and parseInt to their argument
StringOf(v) ==
    CASE v.t = "string" -> v.s
      [] v.t = "number" -> NumberToString(v.n)
      [] v.t = "null" -> <<"n", "u", "l", "l">>
      [] OTHER -> <<"u", "n", "d", "e", "f", "i", "n", "e", "d">>

NaN == [k |-> "NaN", n |-> 0]

Finite(n) == [k |-> "finite", n |-> n]

Infinity(sign) == [k |-> "Infinity", n |-> sign]

InfinityLiteral == <<"I", "n", "f", "i", "n", "i", "t", "y">>

IsPrefix(p, s) == Len(p) <= Len(s) /\ SubSeq(s, 1, Len(p)) = p

\* parseFloat: skips leading white space, reads an optional sign and the
\* longest decimal literal that follows, and ignores whatever comes after it
\* (strings of the model carry no exponent part)
parseFloat(v) ==
    LET s1 == TrimStart(StringOf(v))
        neg == s1 # <<>> /\ Head(s1) = "-"
        s2 == IF s1 # <<>> /\ Head(s1) \in {"-", "+"} THEN Tail(s1) ELSE s1
        sign == IF neg THEN 0 - 1 ELSE 1
        int == DigitPrefix(s2)
        s3 == SubSeq(s2, Len(int) + 1, Len(s2))
        frac == IF s3 # <<>> /\ Head(s3) = "." THEN DigitPrefix(Tail(s3)) ELSE <<>>
    IN  IF IsPrefix(InfinityLiteral, s2) THEN Infinity(sign)
        ELSE IF int = <<>> /\ frac = <<>> THEN NaN
        ELSE Finite(sign * (DecimalValue(int) * 1000 + FractionValue(frac)))

\* parseInt without radix: optional sign and the longest digit prefix
parseInt(chars) ==
    LET s1 == TrimStart(chars)
        neg == s1 # <<>> /\ Head(s1) = "-"
        s2 == IF s1 # <<>> /\ Head(s1) \in {"-", "+"} THEN Tail(s1) ELSE s1
        int == DigitPrefix(s2)
    IN  IF int = <<>> THEN NaN
        ELSE Finite((IF neg THEN 0 - 1 ELSE 1) * DecimalValue(int))

isNaN(x) == x.k = "NaN"

\* x < 0 on a parseFloat result
Negative(x) == x.k # "NaN" /\ x.n < 0


\* ------------------------------------------------------------ the database
\* item_name VARCHAR(255)
ItemNameMaxLen == 255

\* NUMERIC(10, 2): at most eight digits before the decimal point
AmountMaxDigits == 8

RECURSIVE Pow10(_)
Pow10(k) == IF k = 0 THEN 1 ELSE 10 * Pow10(k - 1)

\* NUMERIC(10, 2) keeps two decimals, rounding half away from zero
Numeric10_2(n) ==
    IF n >= 0 THEN ((n + 5) \div 10) * 10
    ELSE 0 - (((0 - n) + 5) \div 10) * 10

\* the INSERT is refused by the column types or by CHECK (amount >= 0)
InsertViolates(item_name, numAmount) ==
    \/ Len(item_name) > ItemNameMaxLen
    \/ numAmount.k # "finite"
    \/ Numeric10_2(numAmount.n) \div 1000 >= Pow10(AmountMaxDigits)
    \/ Numeric10_2(numAmount.n) < 0

NoRow == [id |-> 0, item_name |-> <<>>, amount |-> 0, category |-> <<>>, created_at |-> 0]

\* a sequence that hands out the same value again
nextval_Stuck(seq) == seq

\* SERIAL: every INSERT draws nextval('expenses_id_seq'), also one that fails
nextval(seq) == seq + 1

\* a row whose id is counted from the rows present, not drawn from the sequence
InsertedRow_CountedId(item_name, numAmount, category) ==
    [id |-> Cardinality(expenses) + 1, item_name |-> item_name,
     amount |-> Numeric10_2(numAmount.n), category |-> category,
     created_at |-> now]

\* the row INSERT ... RETURNING * stores: id from the sequence, created_at
\* from CURRENT_TIMESTAMP
InsertedRow(item_name, numAmount, category) ==
    [id |-> expenses_id_seq, item_name |-> item_name,
     amount |-> Numeric10_2(numAmount.n), category |-> category,
     created_at |-> now]

\* pool.query(text, params)
Query(sql, params) == [sql |-> sql, params |-> params]

\* a query that drops its WHERE clause
Where_Unfiltered(rows, query) == rows

\* the rows a query with the optional WHERE category = $1 ranges over
Where(rows, query) ==
    IF query.params = <<>> THEN rows
    ELSE {r \in rows : r.category = StringOf(query.params[1])}

\* a DELETE with <= in its WHERE clause
DeleteFrom_UpTo(rows, query) == {r \in rows : r.id > query.params[1]}

\* a DELETE whose WHERE clause matches no row
DeleteFrom_None(rows, query) == rows

\* a DELETE without its WHERE clause
DeleteFrom_All(rows, query) == {}

\* the rows left by DELETE FROM expenses WHERE id = $1
DeleteFrom(rows, query) == {r \in rows : r.id # query.params[1]}

\* the rows in ascending order: ORDER BY created_at
OrderByCreatedAtDesc_Ascending(rows) ==
    {s \in [1..Cardinality(rows) -> rows] :
        /\ \A i, j \in DOMAIN s : i # j => s[i] # s[j]
        /\ \A i, j \in DOMAIN s : i < j => s[i].created_at <= s[j].created_at}

\* ORDER BY created_at DESC: every order of the rows that is descending in
\* created_at; the engine picks the order of rows with equal created_at
OrderByCreatedAtDesc(rows) ==
    {s \in [1..Cardinality(rows) -> rows] :
        /\ \A i, j \in DOMAIN s : i # j => s[i] # s[j]
        /\ \A i, j \in DOMAIN s : i < j => s[i].created_at >= s[j].created_at}

RECURSIVE SumAmount(_)
SumAmount(rows) ==
    IF rows = {} THEN 0
    ELSE LET r == CHOOSE x \in rows : TRUE
         IN  r.amount + SumAmount(rows \ {r})

\* the sum without the COALESCE: SUM(amount)
CoalesceSum_NoCoalesce(rows) ==
    IF rows = {} THEN Null ELSE Num(SumAmount(rows))

\* COALESCE(SUM(amount), 0): SUM over no rows is NULL
CoalesceSum(rows) ==
    LET sum == IF rows = {} THEN Null ELSE Num(SumAmount(rows))
    IN  IF sum.t = "null" THEN Num(0) ELSE sum

\* result.rows[0].total: the driver hands a NUMERIC back as text, NULL as null
TotalColumn(rows) ==
    LET sum == CoalesceSum(rows)
    IN  IF sum.t = "null" THEN Null ELSE Str(NumberToString(sum.n))

\* res.json writes a finite number as it is, NaN and the infinities as null
JsonNumber(x) == IF x.k = "finite" THEN Num(x.n) ELSE Null

\* ------------------------------------------------------------- the handlers
Food == <<"F", "o", "o", "d">>

Transport == <<"T", "r", "a", "n", "s", "p", "o", "r", "t">>

Entertainment == <<"E", "n", "t", "e", "r", "t", "a", "i", "n", "m", "e", "n", "t">>

Shopping == <<"S", "h", "o", "p", "p", "i", "n", "g">>

Bills == <<"B", "i", "l", "l", "s">>

Other == <<"O", "t", "h", "e", "r">>

validCategories == {Food, Transport, Entertainment, Shopping, Bills, Other}

\* the check without the trim: !itemName
ItemNameMissing_NoTrim(itemName) == ~Truthy(itemName)

\* !itemName || itemName.trim() === ''
ItemNameMissing(itemName) == ~Truthy(itemName) \/ trim(itemName.s) = <<>>

\* amount === undefined || amount === null
AmountMissing(amount) == amount.t \in {"undefined", "null"}

\* the check with <= in place of <: isNaN(numAmount) || numAmount <= 0
AmountInvalid_ZeroRejected(numAmount) == isNaN(numAmount) \/ numAmount.n <= 0

\* isNaN(numAmount) || numAmount < 0
AmountInvalid(numAmount) == isNaN(numAmount) \/ Negative(numAmount)

\* the default without the membership test: category || 'Other'
expenseCategory_Unchecked(category) ==
    IF Truthy(category) THEN StringOf(category) ELSE Other

\* the category passed on as sent, without the default
expenseCategory_AsSent(category) == StringOf(category)

\* category && validCategories.includes(category) ? category : 'Other'
expenseCategory(category) ==
    IF Truthy(category) /\ category.t = "string" /\ category.s \in validCategories
    THEN category.s
    ELSE Other

\* the checks with the amount looked at before the item name
CreateError_AmountFirst(itemName, amount) ==
    IF AmountMissing(amount) THEN "Amount is required"
    ELSE IF AmountInvalid(parseFloat(amount)) THEN "Amount must be a positive number"
    ELSE IF ItemNameMissing(itemName) THEN "Item name is required and cannot be empty"
    ELSE ""

\* the error of the first failing check of the create handler, "" when none fails
CreateError(itemName, amount) ==
    IF ItemNameMissing(itemName) THEN "Item name is required and cannot be empty"
    ELSE IF AmountMissing(amount) THEN "Amount is required"
    ELSE IF AmountInvalid(parseFloat(amount)) THEN "Amount must be a positive number"
    ELSE ""

InsertQuery(itemName, amount, category) ==
    Query("INSERT INTO expenses (item_name, amount, category) VALUES ($1, $2, $3) RETURNING *",
          <<Str(trim(itemName.s)), parseFloat(amount), Str(expenseCategory(category))>>)

\* a list query that treats its filter as the create handler treats a category
ListQuery_Normalized(category) ==
    IF Truthy(category)
    THEN Query("SELECT * FROM expenses WHERE category = $1 ORDER BY created_at DESC",
               <<Str(expenseCategory(category))>>)
    ELSE Query("SELECT * FROM expenses ORDER BY created_at DESC", <<>>)

\* 'SELECT * FROM expenses' [+ ' WHERE category = $1'] + ' ORDER BY created_at DESC'
ListQuery(category) ==
    IF Truthy(category)
    THEN Query("SELECT * FROM expenses WHERE category = $1 ORDER BY created_at DESC",
               <<category>>)
    ELSE Query("SELECT * FROM expenses ORDER BY created_at DESC", <<>>)

\* a total query that never appends the WHERE clause
TotalQuery_Unfiltered(category) ==
    Query("SELECT COALESCE(SUM(amount), 0) as total FROM expenses", <<>>)

\* 'SELECT COALESCE(SUM(amount), 0) as total FROM expenses' [+ ' WHERE category = $1']
TotalQuery(category) ==
    IF Truthy(category)
    THEN Query("SELECT COALESCE(SUM(amount), 0) as total FROM expenses WHERE category = $1",
               <<category>>)
    ELSE Query("SELECT COALESCE(SUM(amount), 0) as total FROM expenses", <<>>)

CheckQuery(expenseId) == Query("SELECT * FROM expenses WHERE id = $1", <<expenseId>>)

DeleteQuery(expenseId) == Query("DELETE FROM expenses WHERE id = $1", <<expenseId>>)

\* isNaN(expenseId) || expenseId <= 0
ExpenseIdInvalid(expenseId) == isNaN(expenseId) \/ expenseId.n <= 0

\* a test that never sees the empty result: checkResult.length === 0
NotFound_Never(checkResult) == FALSE

\* checkResult.rows.length === 0
NotFound(checkResult) == Cardinality(checkResult) = 0

Idle ==
    [op |-> "none", pc |-> "idle", itemName |-> Undefined, amount |-> Undefined,
     category |-> Undefined, id |-> <<>>, queries |-> <<>>, deletedBefore |-> {}]

\* a response: the request it answers, the queries the request issued and
\* whether one of them threw, the status and body sent, the number of rows
\* the request's DELETE removed, and the table as the request's last step
\* left it
Response(req, threw, status, error, expense, rows, total, id, rowCount, table) ==
    [op |-> req.op, itemName |-> req.itemName, amount |-> req.amount,
     category |-> req.category, idParam |-> req.id, queries |-> req.queries,
     deletedBefore |-> req.deletedBefore, threw |-> threw, status |-> status,
     error |-> error, expense |-> expense, rows |-> rows, total |-> total,
     rowCount |-> rowCount,
     id |-> id, table |-> table]

NoResponse == Response(Idle, FALSE, 0, "", NoRow, <<>>, Undefined, 0, 0, {})

\* res.status(status).json({ error })
ErrorResponse(req, threw, status, error) ==
    Response(req, threw, status, error, NoRow, <<>>, Undefined, 0, 0, expenses)

\* one message for every handler
CatchError_Shared(op) == "Internal server error"

\* the body each handler's catch block sends with status 500
CatchError(op) ==
    CASE op = "create" -> "Failed to add expense to database"
      [] op = "list" -> "Failed to fetch expenses from database"
      [] op = "total" -> "Failed to calculate total spending"
      [] op = "delete" -> "Failed to delete expense from database"

\* itemName.trim is not a function: a truthy itemName that is no string makes
\* the validation, which runs outside the try, throw a TypeError
TrimThrows(itemName) == Truthy(itemName) /\ itemName.t # "string"

\* a router that drops the rejection of a handler's promise: the request is
\* left without a response
RejectionHandled_Dropped == FALSE

\* the Express 5 router passes the rejection of an async handler's promise to
\* next(err), and the default error handler answers 500
RejectionHandled == TRUE

\* ------------------------------------------------------------- the browser
All == <<"A", "l", "l">>

\* the useState initial values of App
AppState ==
    [itemName |-> <<>>, amount |-> <<>>, category |-> Other, error |-> "",
     success |-> "", loading |-> FALSE, expenses |-> <<>>, fetchError |-> "",
     totalSpending |-> 0, filterCategory |-> All]

\* a fetch in flight: what it asks for, the filterCategory of the render whose
\* closure issued it, and the body or id it carries
Fetch(method, route, filterCategory, body, id) ==
    [method |-> method, route |-> route, filterCategory |-> filterCategory,
     body |-> body, id |-> id]

NoBody == [itemName |-> <<>>, amount |-> NaN, category |-> <<>>]

\* fetchExpenses up to its await: GET /api/expenses[?category=filterCategory]
fetchExpenses(filterCategory) ==
    Fetch("GET", "/api/expenses", filterCategory, NoBody, 0)

\* fetchTotal up to its await: GET /api/expenses/total[?category=filterCategory]
fetchTotal(filterCategory) ==
    Fetch("GET", "/api/expenses/total", filterCategory, NoBody, 0)

\* a refresh that fetches the list alone
Refresh_ListOnly(filterCategory) == SetToBag({fetchExpenses(filterCategory)})

\* fetchExpenses(); fetchTotal(): both closures of one render, called in turn
Refresh(filterCategory) ==
    SetToBag({fetchExpenses(filterCategory), fetchTotal(filterCategory)})

\* no create answered 201 yet, or the table has changed otherwise since
NoRoundTrip == [phase |-> "idle", before |-> {}, expense |-> NoRow, amount |-> Undefined]

Init ==
    /\ expenses = {}
    /\ expenses_id_seq = 1
    /\ now = 0
    /\ inflight = [c \in Clients |-> Idle]
    /\ last = NoResponse
    /\ deleted = {}
    /\ roundTrip = NoRoundTrip
    /\ httpRequestsTotal = EmptyBag
    /\ httpErrorsTotal = EmptyBag
    /\ app = AppState
    /\ requests = Refresh(AppState.filterCategory)
    /\ timers = EmptyBag

\* INSERTs awaiting execution
PendingInserts == Cardinality({c \in Clients : inflight[c].pc = "insert"})

\* POST /api/expenses up to the await: validation, then the INSERT is issued
CreateRequest(c, itemName, amount, category) ==
    /\ last = NoResponse
    /\ inflight[c].pc = "idle"
    /\ expenses_id_seq + PendingInserts <= MaxId
    /\ LET req == [Idle EXCEPT !.op = "create", !.itemName = itemName,
                               !.amount = amount, !.category = category]
           error == CreateError(itemName, amount)
       IN  IF TrimThrows(itemName)
           THEN IF RejectionHandled
                THEN /\ last' = ErrorResponse(req, FALSE, 500, "Internal Server Error")
                     /\ UNCHANGED inflight
                ELSE /\ inflight' = [inflight EXCEPT ![c] = [req EXCEPT !.pc = "rejected"]]
                     /\ UNCHANGED last
           ELSE IF error # ""
           THEN /\ last' = ErrorResponse(req, FALSE, 400, error)
                /\ UNCHANGED inflight
           ELSE /\ inflight' = [inflight EXCEPT ![c] =
                        [req EXCEPT !.pc = "insert",
                                    !.queries = <<InsertQuery(itemName, amount, category)>>]]
                /\ UNCHANGED last
    /\ UNCHANGED <<expenses, expenses_id_seq, now, deleted>>

\* POST /api/expenses after the await: the INSERT has run, or has thrown
InsertExec(c) ==
    /\ last = NoResponse
    /\ inflight[c].pc = "insert"
    /\ LET req == inflight[c]
           params == req.queries[1].params
           row == InsertedRow(params[1].s, params[2], params[3].s)
       IN  \E connected \in BOOLEAN :
             IF ~connected
             THEN /\ last' = ErrorResponse(req, TRUE, 500, CatchError(req.op))
                  /\ UNCHANGED <<expenses, expenses_id_seq>>
             ELSE IF InsertViolates(params[1].s, params[2])
             THEN /\ last' = ErrorResponse(req, TRUE, 500, CatchError(req.op))
                  /\ expenses_id_seq' = nextval(expenses_id_seq)
                  /\ UNCHANGED expenses
             ELSE /\ expenses' = expenses \cup {row}
                  /\ expenses_id_seq' = nextval(expenses_id_seq)
                  /\ last' = Response(req, FALSE, 201, "", row, <<>>, Undefined, 0, 0, expenses')
    /\ inflight' = [inflight EXCEPT ![c] = Idle]
    /\ UNCHANGED <<now, deleted>>

\* GET /api/expenses up to the await: the SELECT is built and issued
ListRequest(c, category) ==
    /\ last = NoResponse
    /\ inflight[c].pc = "idle"
    /\ inflight' = [inflight EXCEPT ![c] =
            [Idle EXCEPT !.op = "list", !.pc = "select", !.category = category,
                         !.queries = <<ListQuery(category)>>,
                         !.deletedBefore = deleted]]
    /\ UNCHANGED <<expenses, expenses_id_seq, now, last, deleted>>

\* GET /api/expenses after the await
ListExec(c) ==
    /\ last = NoResponse
    /\ inflight[c].pc = "select"
    /\ LET req == inflight[c]
       IN  \E connected \in BOOLEAN :
             IF ~connected
             THEN last' = ErrorResponse(req, TRUE, 500, CatchError(req.op))
             ELSE \E rows \in OrderByCreatedAtDesc(Where(expenses, req.queries[1])) :
                    last' = Response(req, FALSE, 200, "", NoRow, rows, Undefined, 0, 0,
                                     expenses)
    /\ inflight' = [inflight EXCEPT ![c] = Idle]
    /\ UNCHANGED <<expenses, expenses_id_seq, now, deleted>>

\* GET /api/expenses/total up to the await
TotalRequest(c, category) ==
    /\ last = NoResponse
    /\ inflight[c].pc = "idle"
    /\ inflight' = [inflight EXCEPT ![c] =
            [Idle EXCEPT !.op = "total", !.pc = "sum", !.category = category,
                         !.queries = <<TotalQuery(category)>>]]
    /\ UNCHANGED <<expenses, expenses_id_seq, now, last, deleted>>

\* GET /api/expenses/total after the await: parseFloat(result.rows[0].total)
TotalExec(c) ==
    /\ last = NoResponse
    /\ inflight[c].pc = "sum"
    /\ LET req == inflight[c]
           total == JsonNumber(parseFloat(TotalColumn(Where(expenses, req.queries[1]))))
       IN  \E connected \in BOOLEAN :
             IF ~connected
             THEN last' = ErrorResponse(req, TRUE, 500, CatchError(req.op))
             ELSE last' = Response(req, FALSE, 200, "", NoRow, <<>>, total, 0, 0, expenses)
    /\ inflight' = [inflight EXCEPT ![c] = Idle]
    /\ UNCHANGED <<expenses, expenses_id_seq, now, deleted>>

\* DELETE /api/expenses/:id up to the first await
DeleteRequest(c, id) ==
    /\ last = NoResponse
    /\ inflight[c].pc = "idle"
    /\ LET req == [Idle EXCEPT !.op = "delete", !.id = id]
           expenseId == parseInt(id)
       IN  IF ExpenseIdInvalid(expenseId)
           THEN /\ last' = ErrorResponse(req, FALSE, 400, "Invalid expense ID")
                /\ UNCHANGED inflight
           ELSE /\ inflight' = [inflight EXCEPT ![c] =
                        [req EXCEPT !.pc = "check",
                                    !.queries = <<CheckQuery(expenseId.n)>>]]
                /\ UNCHANGED last
    /\ UNCHANGED <<expenses, expenses_id_seq, now, deleted>>

\* DELETE /api/expenses/:id between the awaits: the existence check has run,
\* or has thrown; when it found the row the DELETE is issued
CheckExec(c) ==
    /\ last = NoResponse
    /\ inflight[c].pc = "check"
    /\ LET req == inflight[c]
           expenseId == req.queries[1].params[1]
           checkResult == {r \in expenses : r.id = expenseId}
       IN  \E connected \in BOOLEAN :
             IF ~connected
             THEN /\ last' = ErrorResponse(req, TRUE, 500, CatchError(req.op))
                  /\ inflight' = [inflight EXCEPT ![c] = Idle]
             ELSE IF NotFound(checkResult)
             THEN /\ last' = ErrorResponse(req, FALSE, 404, "Expense not found")
                  /\ inflight' = [inflight EXCEPT ![c] = Idle]
             ELSE /\ inflight' = [inflight EXCEPT ![c] =
                        [req EXCEPT !.pc = "delete",
                                    !.queries = Append(req.queries, DeleteQuery(expenseId))]]
                  /\ UNCHANGED last
    /\ UNCHANGED <<expenses, expenses_id_seq, now, deleted>>

\* DELETE /api/expenses/:id after the second await: the DELETE has run, or
\* has thrown
DeleteExec(c) ==
    /\ last = NoResponse
    /\ inflight[c].pc = "delete"
    /\ LET req == inflight[c]
           expenseId == req.queries[2].params[1]
       IN  \E connected \in BOOLEAN :
             IF ~connected
             THEN /\ last' = ErrorResponse(req, TRUE, 500, CatchError(req.op))
                  /\ UNCHANGED <<expenses, deleted>>
             ELSE /\ expenses' = DeleteFrom(expenses, req.queries[2])
                  /\ deleted' = deleted \cup {expenseId}
                  /\ last' = Response(req, FALSE, 200, "", NoRow, <<>>, Undefined,
                                      expenseId,
                                      Cardinality(expenses) - Cardinality(expenses'),
                                      expenses')
    /\ inflight' = [inflight EXCEPT ![c] = Idle]
    /\ UNCHANGED <<expenses_id_seq, now>>

\* the database clock advances
Tick ==
    /\ last = NoResponse
    /\ now < MaxClock
    /\ now' = now + 1
    /\ UNCHANGED <<expenses, expenses_id_seq, inflight, last, deleted>>

\* the response has been written out: res.on('finish')
Finish ==
    /\ last # NoResponse
    /\ last' = NoResponse
    /\ UNCHANGED <<expenses, expenses_id_seq, now, inflight, deleted>>

\* ------------------------------------------------------------------ inputs
Tea == <<"t", "e", "a">>

Pets == <<"P", "e", "t", "s">>

ItemNames ==
    {Undefined, Str(<<>>), Str(<<" ">>), Str(<<"\t", " ">>),
     Str(Tea), Str(<<" ", " ">> \o Tea \o <<" ">>), Num(7000)}

Amounts ==
    {Undefined, Null, Num(0), Num(0 - 5000), Num(1005),
     Str(<<"a", "b", "c">>), Str(<<"-", "5">>), Str(<<"1", "2", "a", "b", "c">>),
     Str(InfinityLiteral)}

Categories == {Undefined, Str(<<>>), Str(Food), Str(Pets)}

Filters == {Undefined, Str(<<>>), Str(Food), Str(Other), Str(Pets)}

IdParams ==
    {<<"0">>, <<"-", "1">>, <<"a", "b", "c">>, <<"1">>, <<"2">>, <<"3">>,
     <<"1", "a", "b", "c">>}

\* the request bodies, filters and ids of the concurrent clients
Body(itemName, amount, category) ==
    [itemName |-> itemName, amount |-> amount, category |-> category]

TrafficBodies ==
    {Body(Str(<<" ">> \o Tea), Num(0), Undefined),
     Body(Str(Tea), Num(1005), Str(Food)),
     Body(Str(<<" ">>), Num(0), Str(Food)),
     Body(Str(Tea), Num(0 - 5000), Str(Pets))}

TrafficFilters == {Undefined}

TrafficIdParams == {<<"0">>, <<"1">>, <<"2">>}

\* what a step adds to the record of the last create: a 201 starts it, a 200
\* of a delete for the id the create returned completes it, a 200 of a delete
\* for another id drops it
Observed ==
    IF last'.op = "create" /\ last'.status = 201
    THEN [phase |-> "created", before |-> expenses, expense |-> last'.expense,
          amount |-> last'.amount]
    ELSE IF last'.op = "delete" /\ last'.status = 200
    THEN IF roundTrip.phase = "created" /\ last'.id = roundTrip.expense.id
         THEN [roundTrip EXCEPT !.phase = "deleted"]
         ELSE NoRoundTrip
    ELSE roundTrip

\* concurrent clients sending the traffic requests
Next ==
    \/ \E c \in Clients, b \in TrafficBodies :
          CreateRequest(c, b.itemName, b.amount, b.category) /\ UNCHANGED <<roundTrip, metrics, browser>>
    \/ \E c \in Clients : InsertExec(c) /\ UNCHANGED <<roundTrip, metrics, browser>>
    \/ \E c \in Clients, category \in TrafficFilters : ListRequest(c, category) /\ UNCHANGED <<roundTrip, metrics, browser>>
    \/ \E c \in Clients : ListExec(c) /\ UNCHANGED <<roundTrip, metrics, browser>>
    \/ \E c \in Clients, category \in TrafficFilters : TotalRequest(c, category) /\ UNCHANGED <<roundTrip, metrics, browser>>
    \/ \E c \in Clients : TotalExec(c) /\ UNCHANGED <<roundTrip, metrics, browser>>
    \/ \E c \in Clients, id \in TrafficIdParams : DeleteRequest(c, id) /\ UNCHANGED <<roundTrip, metrics, browser>>
    \/ \E c \in Clients : CheckExec(c) /\ UNCHANGED <<roundTrip, metrics, browser>>
    \/ \E c \in Clients : DeleteExec(c) /\ UNCHANGED <<roundTrip, metrics, browser>>
    \/ Tick /\ UNCHANGED <<roundTrip, metrics, browser>>
    \/ Finish /\ UNCHANGED <<roundTrip, metrics, browser>>

Spec == Init /\ [][Next]_vars

\* one client sending one request after the other, over every combination of
\* the input values
NextInputs ==
    \/ \E itemName \in ItemNames, amount \in Amounts, category \in Categories :
          CreateRequest(1, itemName, amount, category) /\ UNCHANGED <<roundTrip, metrics, browser>>
    \/ InsertExec(1) /\ UNCHANGED <<roundTrip, metrics, browser>>
    \/ \E category \in Filters : ListRequest(1, category) /\ UNCHANGED <<roundTrip, metrics, browser>>
    \/ ListExec(1) /\ UNCHANGED <<roundTrip, metrics, browser>>
    \/ \E category \in Filters : TotalRequest(1, category) /\ UNCHANGED <<roundTrip, metrics, browser>>
    \/ TotalExec(1) /\ UNCHANGED <<roundTrip, metrics, browser>>
    \/ \E id \in IdParams : DeleteRequest(1, id) /\ UNCHANGED <<roundTrip, metrics, browser>>
    \/ CheckExec(1) /\ UNCHANGED <<roundTrip, metrics, browser>>
    \/ DeleteExec(1) /\ UNCHANGED <<roundTrip, metrics, browser>>
    \/ Tick /\ UNCHANGED <<roundTrip, metrics, browser>>
    \/ Finish /\ UNCHANGED <<roundTrip, metrics, browser>>

SpecInputs == Init /\ [][NextInputs]_vars

\* one client sending the traffic requests one after the other, the last
\* create and its delete on record
NextRoundTrip ==
    \/ \E b \in TrafficBodies :
          CreateRequest(1, b.itemName, b.amount, b.category) /\ UNCHANGED <<roundTrip, metrics, browser>>
    \/ InsertExec(1) /\ roundTrip' = Observed /\ UNCHANGED <<metrics, browser>>
    \/ \E category \in TrafficFilters : ListRequest(1, category) /\ UNCHANGED <<roundTrip, metrics, browser>>
    \/ ListExec(1) /\ UNCHANGED <<roundTrip, metrics, browser>>
    \/ \E category \in TrafficFilters : TotalRequest(1, category) /\ UNCHANGED <<roundTrip, metrics, browser>>
    \/ TotalExec(1) /\ UNCHANGED <<roundTrip, metrics, browser>>
    \/ \E id \in TrafficIdParams : DeleteRequest(1, id) /\ UNCHANGED <<roundTrip, metrics, browser>>
    \/ CheckExec(1) /\ UNCHANGED <<roundTrip, metrics, browser>>
    \/ DeleteExec(1) /\ roundTrip' = Observed /\ UNCHANGED <<metrics, browser>>
    \/ Tick /\ UNCHANGED <<roundTrip, metrics, browser>>
    \/ Finish /\ UNCHANGED <<roundTrip, metrics, browser>>

SpecRoundTrip == Init /\ [][NextRoundTrip]_vars

\* -------------------------------------------------------------- the metrics
\* req.method of the request a response answers
Method(op) ==
    CASE op = "create" -> "POST"
      [] op = "delete" -> "DELETE"
      [] OTHER -> "GET"

\* req.route?.path ?? req.path
Route(op) ==
    CASE op = "create" -> "/api/expenses"
      [] op = "list" -> "/api/expenses"
      [] op = "total" -> "/api/expenses/total"
      [] op = "delete" -> "/api/expenses/:id"

\* { method, route, status_code: statusCode }
Labels(response) ==
    [method |-> Method(response.op), route |-> Route(response.op),
     status_code |-> response.status]

\* an error counter for the 5xx responses alone
IsError_ServerOnly(statusCode) == statusCode >= 500

\* res.statusCode >= 400
IsError(statusCode) == statusCode >= 400

\* res.on('finish'): the response has been written out and the middleware
\* counts it
Finished ==
    /\ Finish
    /\ httpRequestsTotal' = httpRequestsTotal (+) SetToBag({Labels(last)})
    /\ httpErrorsTotal' =
          IF IsError(last.status)
          THEN httpErrorsTotal (+) SetToBag({Labels(last)})
          ELSE httpErrorsTotal

\* the requests that start while the counters are below their bound
Counting == BagCardinality(httpRequestsTotal) < MaxFinished

\* one client sending requests one after the other, the middleware counting
\* the responses
NextMetrics ==
    \/ \E b \in TrafficBodies :
          /\ Counting
          /\ CreateRequest(1, b.itemName, b.amount, b.category)
          /\ UNCHANGED <<roundTrip, metrics, browser>>
    \/ InsertExec(1) /\ UNCHANGED <<roundTrip, metrics, browser>>
    \/ Counting /\ ListRequest(1, Undefined) /\ UNCHANGED <<roundTrip, metrics, browser>>
    \/ ListExec(1) /\ UNCHANGED <<roundTrip, metrics, browser>>
    \/ Counting /\ TotalRequest(1, Undefined) /\ UNCHANGED <<roundTrip, metrics, browser>>
    \/ TotalExec(1) /\ UNCHANGED <<roundTrip, metrics, browser>>
    \/ \E id \in TrafficIdParams :
          Counting /\ DeleteRequest(1, id) /\ UNCHANGED <<roundTrip, metrics, browser>>
    \/ CheckExec(1) /\ UNCHANGED <<roundTrip, metrics, browser>>
    \/ DeleteExec(1) /\ UNCHANGED <<roundTrip, metrics, browser>>
    \/ Tick /\ UNCHANGED <<roundTrip, metrics, browser>>
    \/ Finished /\ UNCHANGED <<roundTrip, browser>>

SpecMetrics == Init /\ [][NextMetrics]_vars

\* ---------------------------------------------------------------- the page
\* {fetchError && ...}
ShowsFetchError(a) == a.fetchError # ""

\* the empty state shown whenever the list is empty, also over a fetch error
ShowsEmptyState_IgnoringError(a) == Len(a.expenses) = 0

\* {!fetchError && expenses.length === 0 && ...}
ShowsEmptyState(a) == a.fetchError = "" /\ Len(a.expenses) = 0

\* {!fetchError && expenses.length > 0 && ...}: the total and the list
ShowsTotalAndList(a) == a.fetchError = "" /\ Len(a.expenses) > 0

\* the validation with the empty amount let through
FormAmountInvalid_EmptyAccepted(amount) ==
    amount # <<>> /\ (isNaN(parseFloat(Str(amount))) \/ Negative(parseFloat(Str(amount))))

\* const numAmount = parseFloat(amount); isNaN(numAmount) || numAmount < 0
FormAmountInvalid(amount) ==
    isNaN(parseFloat(Str(amount))) \/ Negative(parseFloat(Str(amount)))

\* the outcomes of a fetch: response.ok, a response that is not ok and carries
\* data.error, and a fetch or response.json() that rejects
Outcomes == {"ok", "refused", "failed"}

\* the outcomes of a fetch that the server answered
Answered == {"ok", "refused"}

\* err.message of a rejected fetch
NetworkError == "Failed to fetch"

\* what the catch block shows: data.error of the response, or err.message
Caught(outcome, dataError) == IF outcome = "refused" THEN dataError ELSE NetworkError

\* what the user can type and select
FormItemNames == {<<>>, <<" ">>, Tea}

FormAmounts == {<<>>, <<"-", "5">>, <<"5">>}

FormCategories == {Other, Food}

FilterCategories == {All, Food}

\* the bodies of the list and total responses
Listed(id) ==
    [id |-> id, item_name |-> Tea, amount |-> 5000, category |-> Food, created_at |-> 0]

ListData == {<<>>, <<Listed(1)>>}

TotalData == {0, 5000}

\* a form that is never disabled
FormDisabled_Never(a) == FALSE

\* disabled={loading} on the three inputs and on the submit button
FormDisabled(a) == a.loading

\* onChange of the item name input, which is disabled while loading
SetItemName(value) ==
    /\ ~FormDisabled(app)
    /\ value # app.itemName
    /\ app' = [app EXCEPT !.itemName = value]
    /\ UNCHANGED <<requests, timers>>

\* onChange of the amount input, which is disabled while loading
SetAmount(value) ==
    /\ ~FormDisabled(app)
    /\ value # app.amount
    /\ app' = [app EXCEPT !.amount = value]
    /\ UNCHANGED <<requests, timers>>

\* onChange of the category select, which is disabled while loading
SetCategory(value) ==
    /\ ~FormDisabled(app)
    /\ value # app.category
    /\ app' = [app EXCEPT !.category = value]
    /\ UNCHANGED <<requests, timers>>

\* onChange of the filter select, and the effect that runs after the render
SetFilterCategory(value) ==
    /\ value # app.filterCategory
    /\ BagCardinality(requests) + 2 <= MaxInFlight
    /\ app' = [app EXCEPT !.filterCategory = value]
    /\ requests' = requests (+) Refresh(value)
    /\ UNCHANGED timers

\* handleSubmit up to its await; the submit button is disabled while loading
handleSubmit ==
    /\ ~FormDisabled(app)
    /\ LET cleared == [app EXCEPT !.error = "", !.success = ""]
           post == Fetch("POST", "/api/expenses", app.filterCategory,
                         [itemName |-> trim(app.itemName),
                          amount |-> parseFloat(Str(app.amount)),
                          category |-> app.category], 0)
       IN  IF trim(app.itemName) = <<>>
           THEN /\ app' = [cleared EXCEPT !.error = "Item name cannot be empty"]
                /\ UNCHANGED requests
           ELSE IF FormAmountInvalid(app.amount)
           THEN /\ app' = [cleared EXCEPT !.error = "Amount must be a positive number"]
                /\ UNCHANGED requests
           ELSE /\ BagCardinality(requests) < MaxInFlight
                /\ app' = [cleared EXCEPT !.loading = TRUE]
                /\ requests' = requests (+) SetToBag({post})
    /\ UNCHANGED timers

\* handleSubmit after its awaits: the POST has been answered, or has failed
SubmitDone(r, outcome) ==
    /\ BagIn(r, requests)
    /\ r.method = "POST"
    /\ IF outcome = "ok"
       THEN /\ BagCardinality(requests) + 1 <= MaxInFlight
            /\ BagCardinality(timers) < MaxTimers
            /\ app' = [app EXCEPT !.success = "Expense added successfully!",
                                  !.itemName = <<>>, !.amount = <<>>,
                                  !.category = Other, !.loading = FALSE]
            /\ requests' = (requests (-) SetToBag({r})) (+) Refresh(r.filterCategory)
            /\ timers' = timers (+) SetToBag({"setSuccess"})
       ELSE /\ app' = [app EXCEPT !.error = Caught(outcome, CatchError("create")),
                                  !.loading = FALSE]
            /\ requests' = requests (-) SetToBag({r})
            /\ UNCHANGED timers

\* handleDelete up to its await: the button of a listed expense, and the
\* answer to window.confirm
handleDelete(id, confirm) ==
    /\ ShowsTotalAndList(app)
    /\ \E i \in DOMAIN app.expenses : app.expenses[i].id = id
    /\ IF confirm
       THEN /\ BagCardinality(requests) < MaxInFlight
            /\ requests' = requests (+)
                   SetToBag({Fetch("DELETE", "/api/expenses/:id", app.filterCategory,
                                   NoBody, id)})
       ELSE UNCHANGED requests
    /\ UNCHANGED <<app, timers>>

\* handleDelete after its awaits: the DELETE has been answered, or has failed
DeleteDone(r, outcome) ==
    /\ BagIn(r, requests)
    /\ r.method = "DELETE"
    /\ BagCardinality(timers) < MaxTimers
    /\ IF outcome = "ok"
       THEN /\ BagCardinality(requests) + 1 <= MaxInFlight
            /\ app' = [app EXCEPT !.success = "Expense deleted successfully!"]
            /\ requests' = (requests (-) SetToBag({r})) (+) Refresh(r.filterCategory)
            /\ timers' = timers (+) SetToBag({"setSuccess"})
       ELSE /\ app' = [app EXCEPT !.error = Caught(outcome, CatchError("delete"))]
            /\ requests' = requests (-) SetToBag({r})
            /\ timers' = timers (+) SetToBag({"setError"})

\* fetchExpenses after its awaits
FetchExpensesDone(r, outcome, data) ==
    /\ BagIn(r, requests)
    /\ r = fetchExpenses(r.filterCategory)
    /\ IF outcome = "ok"
       THEN app' = [app EXCEPT !.expenses = data, !.fetchError = ""]
       ELSE app' = [app EXCEPT !.fetchError = Caught(outcome, CatchError("list"))]
    /\ requests' = requests (-) SetToBag({r})
    /\ UNCHANGED timers

\* fetchTotal after its awaits: a failure is logged to the console only
FetchTotalDone(r, outcome, total) ==
    /\ BagIn(r, requests)
    /\ r = fetchTotal(r.filterCategory)
    /\ IF outcome = "ok"
       THEN app' = [app EXCEPT !.totalSpending = total]
       ELSE UNCHANGED app
    /\ requests' = requests (-) SetToBag({r})
    /\ UNCHANGED timers

\* a setTimeout callback runs: setSuccess('') or setError('')
Timeout(t) ==
    /\ BagIn(t, timers)
    /\ app' = IF t = "setSuccess" THEN [app EXCEPT !.success = ""]
              ELSE [app EXCEPT !.error = ""]
    /\ timers' = timers (-) SetToBag({t})
    /\ UNCHANGED requests

\* the user at the page, changing the filter while fetches are in flight: a
\* form that is empty or valid, and fetches that are answered, over every
\* list and total
NextPage ==
    \/ \E value \in {<<>>, Tea} : SetItemName(value) /\ UNCHANGED <<server, metrics>>
    \/ \E value \in {<<>>, <<"5">>} : SetAmount(value) /\ UNCHANGED <<server, metrics>>
    \/ \E value \in FormCategories : SetCategory(value) /\ UNCHANGED <<server, metrics>>
    \/ \E value \in FilterCategories :
          SetFilterCategory(value) /\ UNCHANGED <<server, metrics>>
    \/ handleSubmit /\ UNCHANGED <<server, metrics>>
    \/ \E r \in BagToSet(requests), outcome \in Answered :
          SubmitDone(r, outcome) /\ UNCHANGED <<server, metrics>>
    \/ \E id \in 1..MaxId, confirm \in BOOLEAN :
          handleDelete(id, confirm) /\ UNCHANGED <<server, metrics>>
    \/ \E r \in BagToSet(requests), outcome \in Answered :
          DeleteDone(r, outcome) /\ UNCHANGED <<server, metrics>>
    \/ \E r \in BagToSet(requests), outcome \in Answered, data \in ListData :
          FetchExpensesDone(r, outcome, data) /\ UNCHANGED <<server, metrics>>
    \/ \E r \in BagToSet(requests), outcome \in Answered, total \in TotalData :
          FetchTotalDone(r, outcome, total) /\ UNCHANGED <<server, metrics>>
    \/ \E t \in BagToSet(timers) : Timeout(t) /\ UNCHANGED <<server, metrics>>

SpecPage == Init /\ [][NextPage]_vars

\* the user at the form: every combination of what can be typed and every
\* outcome of the POST, the other fetches answered ok with one list and one
\* total
NextForm ==
    \/ \E value \in FormItemNames : SetItemName(value) /\ UNCHANGED <<server, metrics>>
    \/ \E value \in FormAmounts : SetAmount(value) /\ UNCHANGED <<server, metrics>>
    \/ \E value \in FormCategories : SetCategory(value) /\ UNCHANGED <<server, metrics>>
    \/ \E value \in FilterCategories :
          SetFilterCategory(value) /\ UNCHANGED <<server, metrics>>
    \/ handleSubmit /\ UNCHANGED <<server, metrics>>
    \/ \E r \in BagToSet(requests), outcome \in Outcomes :
          SubmitDone(r, outcome) /\ UNCHANGED <<server, metrics>>
    \/ \E id \in 1..MaxId, confirm \in BOOLEAN :
          handleDelete(id, confirm) /\ UNCHANGED <<server, metrics>>
    \/ \E r \in BagToSet(requests) :
          DeleteDone(r, "ok") /\ UNCHANGED <<server, metrics>>
    \/ \E r \in BagToSet(requests) :
          FetchExpensesDone(r, "ok", <<Listed(1)>>) /\ UNCHANGED <<server, metrics>>
    \/ \E r \in BagToSet(requests) :
          FetchTotalDone(r, "ok", 5000) /\ UNCHANGED <<server, metrics>>
    \/ \E t \in BagToSet(timers) : Timeout(t) /\ UNCHANGED <<server, metrics>>

SpecForm == Init /\ [][NextForm]_vars

\* ------------------------------------------------------------------ claims

\* C1: a create request whose itemName is the empty string or only white
\* space, whatever its amount and category, is answered 400, issues no query
\* and leaves the table as it was.
C1_BlankItemNameRejected ==
    [][(/\ last' # NoResponse
        /\ last'.op = "create"
        /\ last'.itemName.t = "string"
        /\ \A i \in DOMAIN last'.itemName.s : last'.itemName.s[i] \in {" ", "\t", "\n"})
       => (/\ last'.status = 400
           /\ last'.error = "Item name is required and cannot be empty"
           /\ last'.queries = <<>>
           /\ expenses' = expenses)]_vars

C1_Witness ==
    /\ last.op = "create"
    /\ last.itemName = Str(<<"\t", " ">>)
    /\ last.amount = Num(1005)
    /\ last.category = Str(Food)
    /\ last.status = 400

\* C2: a create request with a valid itemName whose amount is negative or is
\* not a number (a string that is not wholly a decimal literal included) is
\* answered 400 and issues no query.
C2_NonNumericAmountRejected ==
    LET name == last.itemName
        chars == last.amount.s
        digits == IF chars # <<>> /\ Head(chars) = "-" THEN Tail(chars) ELSE chars
        numeric ==
            \/ last.amount.t = "number"
            \/ /\ last.amount.t = "string"
               /\ digits # <<>>
               /\ \A i \in DOMAIN digits :
                     digits[i] \in {"0", "1", "2", "3", "4", "5", "6", "7", "8", "9"}
        negative ==
            \/ last.amount.t = "number" /\ last.amount.n < 0
            \/ last.amount.t = "string" /\ numeric /\ Head(chars) = "-"
    IN  (/\ last.op = "create"
         /\ name.t = "string"
         /\ \E i \in DOMAIN name.s : name.s[i] \notin {" ", "\t", "\n"}
         /\ last.amount.t \in {"number", "string"}
         /\ (negative \/ ~numeric))
        => (last.status = 400 /\ last.queries = <<>>)

\* C3: with a valid itemName, an absent amount (undefined or null) is answered
\* 400 'Amount is required' without a query, and an amount of 0 passes the
\* validation: the INSERT is issued, and unless it throws the answer is 201
\* with the stored row of amount 0.
C3_AmountRequiredZeroAccepted ==
    LET name == last.itemName
        validName ==
            /\ name.t = "string"
            /\ \E i \in DOMAIN name.s : name.s[i] \notin {" ", "\t", "\n"}
    IN  /\ (last.op = "create" /\ validName /\ last.amount.t \in {"undefined", "null"})
           => (/\ last.status = 400
               /\ last.error = "Amount is required"
               /\ last.queries = <<>>)
        /\ (last.op = "create" /\ validName /\ last.amount = Num(0))
           => (/\ Len(last.queries) = 1
               /\ ~last.threw => (/\ last.status = 201
                                  /\ last.expense \in last.table
                                  /\ last.expense.amount = 0))

C3_Witness ==
    /\ last.op = "create"
    /\ last.amount = Num(0)
    /\ last.status = 201
    /\ last.expense.amount = 0
    /\ last.expense \in expenses

\* C4: a create request that passes validation writes its own category when
\* that is one of the six categories and 'Other' when it is absent or
\* anything else; the category never makes the request fail with 400.
C4_CategoryNormalized ==
    LET sent == last.category
        known ==
            /\ sent.t = "string"
            /\ sent.s \in {<<"F", "o", "o", "d">>,
                           <<"T", "r", "a", "n", "s", "p", "o", "r", "t">>,
                           <<"E", "n", "t", "e", "r", "t", "a", "i", "n", "m", "e", "n", "t">>,
                           <<"S", "h", "o", "p", "p", "i", "n", "g">>,
                           <<"B", "i", "l", "l", "s">>,
                           <<"O", "t", "h", "e", "r">>}
        written == IF known THEN sent.s ELSE <<"O", "t", "h", "e", "r">>
    IN  last.op = "create"
        => /\ CreateError(last.itemName, last.amount) = ""
              => (last.status # 400 /\ Len(last.queries) = 1)
           /\ last.queries # <<>> => last.queries[1].params[3] = Str(written)
           /\ last.status = 201 => last.expense.category = written

C4_Witness ==
    /\ last.op = "create"
    /\ last.category = Str(Pets)
    /\ last.status = 201
    /\ last.expense.category = Other

\* C5 as stated: a create request that passes validation and whose insert
\* succeeds is answered 201 with the persisted row; its itemName is the input
\* without leading and trailing white space, its amount is the numeric value
\* of the input amount, its category is one of the six.
C5_CreatedRecordEqualsInput ==
    LET sent == last.itemName.s
        name == last.expense.item_name
    IN  /\ (last.op = "create" /\ last.queries # <<>> /\ ~last.threw)
           => (last.status = 201 /\ last.expense \in last.table)
        /\ (last.op = "create" /\ last.status = 201)
           => /\ \E i, j \in 0..Len(sent) :
                    /\ i + j <= Len(sent)
                    /\ name = SubSeq(sent, i + 1, Len(sent) - j)
                    /\ \A k \in 1..i : sent[k] \in {" ", "\t", "\n"}
                    /\ \A k \in (Len(sent) - j + 1)..Len(sent) : sent[k] \in {" ", "\t", "\n"}
              /\ name # <<>>
              /\ Head(name) \notin {" ", "\t", "\n"}
              /\ name[Len(name)] \notin {" ", "\t", "\n"}
              /\ last.expense.amount = parseFloat(last.amount).n
              /\ last.expense.category \in
                    {<<"F", "o", "o", "d">>,
                     <<"T", "r", "a", "n", "s", "p", "o", "r", "t">>,
                     <<"E", "n", "t", "e", "r", "t", "a", "i", "n", "m", "e", "n", "t">>,
                     <<"S", "h", "o", "p", "p", "i", "n", "g">>,
                     <<"B", "i", "l", "l", "s">>,
                     <<"O", "t", "h", "e", "r">>}

\* C5 as amended: the same, with the amount of the persisted row being the
\* numeric value of the input amount rounded to two decimals (a multiple of
\* 0.01 at most 0.005 away from it, halves rounded up).
C5_CreatedRecordRoundedAmount ==
    LET sent == last.itemName.s
        name == last.expense.item_name
        numeric == parseFloat(last.amount).n
    IN  /\ (last.op = "create" /\ last.queries # <<>> /\ ~last.threw)
           => (last.status = 201 /\ last.expense \in last.table)
        /\ (last.op = "create" /\ last.status = 201)
           => /\ \E i, j \in 0..Len(sent) :
                    /\ i + j <= Len(sent)
                    /\ name = SubSeq(sent, i + 1, Len(sent) - j)
                    /\ \A k \in 1..i : sent[k] \in {" ", "\t", "\n"}
                    /\ \A k \in (Len(sent) - j + 1)..Len(sent) : sent[k] \in {" ", "\t", "\n"}
              /\ name # <<>>
              /\ Head(name) \notin {" ", "\t", "\n"}
              /\ name[Len(name)] \notin {" ", "\t", "\n"}
              /\ last.expense.amount % 10 = 0
              /\ last.expense.amount - 5 <= numeric
              /\ numeric < last.expense.amount + 5
              /\ last.expense.category \in
                    {<<"F", "o", "o", "d">>,
                     <<"T", "r", "a", "n", "s", "p", "o", "r", "t">>,
                     <<"E", "n", "t", "e", "r", "t", "a", "i", "n", "m", "e", "n", "t">>,
                     <<"S", "h", "o", "p", "p", "i", "n", "g">>,
                     <<"B", "i", "l", "l", "s">>,
                     <<"O", "t", "h", "e", "r">>}

C5_Witness ==
    /\ last.op = "create"
    /\ last.status = 201
    /\ last.itemName = Str(<<" ", " ", "t", "e", "a", " ">>)
    /\ last.expense.item_name = <<"t", "e", "a">>
    /\ last.amount = Num(1005)
    /\ last.expense.amount = 1010

\* C6: in every state reached by any interleaving of create, list, total and
\* delete requests from the empty table, every stored row has amount >= 0, an
\* item_name with a character that is not white space, and one of the six
\* categories.
C6_StoredRowsValid ==
    \A r \in expenses :
        /\ r.amount >= 0
        /\ \E i \in DOMAIN r.item_name : r.item_name[i] \notin {" ", "\t", "\n"}
        /\ r.category \in
              {<<"F", "o", "o", "d">>,
               <<"T", "r", "a", "n", "s", "p", "o", "r", "t">>,
               <<"E", "n", "t", "e", "r", "t", "a", "i", "n", "m", "e", "n", "t">>,
               <<"S", "h", "o", "p", "p", "i", "n", "g">>,
               <<"B", "i", "l", "l", "s">>,
               <<"O", "t", "h", "e", "r">>}

C6_Witness ==
    /\ \E r \in expenses : r.category = Other /\ r.amount = 0
    /\ \E r \in expenses : r.category = Food /\ r.amount = 1010
    /\ \E c \in Clients : inflight[c].pc = "delete"

\* C7: a delete request whose path id is 0, negative or does not denote a
\* positive integer is answered 400 and issues no query.
C7_InvalidIdRejected ==
    LET id == last.idParam
        positiveInteger ==
            /\ id # <<>>
            /\ \A i \in DOMAIN id :
                  id[i] \in {"0", "1", "2", "3", "4", "5", "6", "7", "8", "9"}
            /\ \E i \in DOMAIN id : id[i] # "0"
    IN  (last.op = "delete" /\ ~positiveInteger)
        => (last.status = 400 /\ last.queries = <<>>)

\* C8: when the existence check of a delete request runs and finds no row
\* with the id, the request is answered 404 having issued that one SELECT and
\* no DELETE, and the table is left as it was; a 404 is never sent otherwise.
C8_MissingRecordNotFound ==
    [][/\ \A c \in Clients :
            (/\ inflight[c].pc = "check"
             /\ inflight'[c] # inflight[c]
             /\ ~last'.threw
             /\ \A r \in expenses : r.id # inflight[c].queries[1].params[1])
            => (/\ last'.op = "delete"
                /\ last'.idParam = inflight[c].id
                /\ last'.status = 404
                /\ inflight'[c].pc = "idle")
       /\ (last' # NoResponse /\ last'.status = 404)
            => (/\ last'.op = "delete"
                /\ Len(last'.queries) = 1
                /\ last'.queries[1].sql = "SELECT * FROM expenses WHERE id = $1"
                /\ \A r \in expenses : r.id # last'.queries[1].params[1]
                /\ expenses' = expenses)]_vars

C8_Witness ==
    /\ last.op = "delete"
    /\ last.status = 404
    /\ last.idParam = <<"1">>
    /\ 1 \in deleted
    /\ expenses # {}

\* C9: a delete request that found its row and whose queries succeed is
\* answered 200 with the id, and no list request that starts after that
\* answer returns a row with that id.
C9_DeletedNeverListed ==
    /\ (last.op = "delete" /\ Len(last.queries) = 2 /\ ~last.threw)
       => (/\ last.status = 200
           /\ last.id = DecimalValue(last.idParam)
           /\ last.id \in deleted
           /\ \A r \in last.table : r.id # last.id)
    /\ (last.op = "list" /\ last.status = 200)
       => \A i \in DOMAIN last.rows : last.rows[i].id \notin last.deletedBefore
    /\ \A c \in Clients : inflight[c].deletedBefore \subseteq deleted
    /\ \A r \in expenses : r.id \notin deleted

C9_Witness ==
    /\ last.op = "list"
    /\ last.status = 200
    /\ last.deletedBefore = {1}
    /\ Len(last.rows) = 1
    /\ last.rows[1].id = 2

\* C10 as stated: a list request without filter (category absent or '') is
\* answered 200 with every stored row exactly once, each row's created_at
\* greater than that of the row after it; the empty table gives the empty list.
C10_ListStrictlyDescending ==
    (last.op = "list" /\ last.category \in {Undefined, Str(<<>>)})
    => /\ ~last.threw => last.status = 200
       /\ last.status = 200
          => /\ Len(last.rows) = Cardinality(last.table)
             /\ {last.rows[i] : i \in DOMAIN last.rows} = last.table
             /\ \A i \in 1..(Len(last.rows) - 1) :
                   last.rows[i].created_at > last.rows[i + 1].created_at

\* C10 as amended: the same, with each row's created_at greater than or
\* equal to that of the row after it.
C10_ListDescending ==
    (last.op = "list" /\ last.category \in {Undefined, Str(<<>>)})
    => /\ ~last.threw => last.status = 200
       /\ last.status = 200
          => /\ Len(last.rows) = Cardinality(last.table)
             /\ {last.rows[i] : i \in DOMAIN last.rows} = last.table
             /\ \A i \in 1..(Len(last.rows) - 1) :
                   last.rows[i].created_at >= last.rows[i + 1].created_at

C10_Witness ==
    /\ last.op = "list"
    /\ last.category = Str(<<>>)
    /\ last.status = 200
    /\ Len(last.rows) = 2
    /\ last.rows[1].created_at = last.rows[2].created_at
    /\ last.rows[1].id = 2

\* C11: a list request with a non-empty category X returns exactly the stored
\* rows whose category is X, each once, in descending order of created_at.
C11_ListFiltered ==
    (last.op = "list" /\ last.category.t = "string" /\ last.category.s # <<>>)
    => /\ ~last.threw => last.status = 200
       /\ last.status = 200
          => /\ {last.rows[i] : i \in DOMAIN last.rows}
                   = {r \in last.table : r.category = last.category.s}
             /\ \A i, j \in DOMAIN last.rows : i # j => last.rows[i] # last.rows[j]
             /\ \A i \in 1..(Len(last.rows) - 1) :
                   last.rows[i].created_at >= last.rows[i + 1].created_at

C11_Witness ==
    /\ last.op = "list"
    /\ last.category = Str(<<"F", "o", "o", "d">>)
    /\ last.status = 200
    /\ Len(last.rows) = 1
    /\ last.rows[1].category = <<"F", "o", "o", "d">>
    /\ \E r \in last.table : r.category = <<"O", "t", "h", "e", "r">>

\* C12: a total request whose filter matches no stored row (the table is
\* empty, or holds no row of the category asked for) is answered, unless its
\* query throws, 200 with total the number 0.
C12_EmptyTotalIsZero ==
    LET matching ==
            IF last.category.t = "string" /\ last.category.s # <<>>
            THEN {r \in last.table : r.category = last.category.s}
            ELSE last.table
    IN  (last.op = "total" /\ ~last.threw /\ matching = {})
        => (/\ last.status = 200
            /\ last.total.t = "number"
            /\ last.total.n = 0)

C12_Witness ==
    /\ last.op = "total"
    /\ last.category = Str(<<"F", "o", "o", "d">>)
    /\ last.status = 200
    /\ last.total = Num(0)
    /\ \E r \in last.table : r.category = <<"O", "t", "h", "e", "r">> /\ r.amount > 0


\* C13: a total request with filter c (absent, empty or any category) that is
\* answered 200 returns the sum of the amounts of exactly the records that a
\* list request with the same filter c returns on the same table, whichever
\* order that list comes back in.
C13_TotalSumsListedRows ==
    (last.op = "total" /\ last.status = 200)
    => \A rows \in OrderByCreatedAtDesc(Where(last.table, ListQuery(last.category))) :
         LET sum[i \in 0..Len(rows)] ==
                 IF i = 0 THEN 0 ELSE sum[i - 1] + rows[i].amount
         IN  last.total = Num(sum[Len(rows)])

C13_Witness ==
    /\ last.op = "total"
    /\ last.category = Str(<<"F", "o", "o", "d">>)
    /\ last.status = 200
    /\ last.total = Num(1010)
    /\ Cardinality(last.table) = 2
    /\ \E r \in last.table : r.category = <<"O", "t", "h", "e", "r">> /\ r.amount = 1010


\* C14 as stated: with no other request in between, after a successful create
\* of amount a the unfiltered list holds the new record and the unfiltered
\* total is higher by a; after the successful delete of the id the create
\* returned the list and the total are back at their values before the
\* create, the total lower by a.
C14_RoundTripByRequestedAmount ==
    LET list(t) == OrderByCreatedAtDesc(Where(t, ListQuery(Undefined)))
        total(t) == JsonNumber(parseFloat(TotalColumn(Where(t, TotalQuery(Undefined)))))
        a == parseFloat(roundTrip.amount).n
        with == roundTrip.before \cup {roundTrip.expense}
    IN  /\ roundTrip.phase = "created"
           => /\ \A rows \in list(expenses) :
                    \E i \in DOMAIN rows : rows[i] = roundTrip.expense
              /\ total(expenses).n = total(roundTrip.before).n + a
        /\ roundTrip.phase = "deleted"
           => /\ list(expenses) = list(roundTrip.before)
              /\ \A rows \in list(expenses) :
                    \A i \in DOMAIN rows : rows[i].id # roundTrip.expense.id
              /\ total(expenses) = total(roundTrip.before)
              /\ total(expenses).n = total(with).n - a

\* C14 (amended): the same round trip, the total moving by the amount the
\* create returned, which is a rounded to two decimals.
C14_RoundTripByStoredAmount ==
    LET list(t) == OrderByCreatedAtDesc(Where(t, ListQuery(Undefined)))
        total(t) == JsonNumber(parseFloat(TotalColumn(Where(t, TotalQuery(Undefined)))))
        a == parseFloat(roundTrip.amount).n
        stored == roundTrip.expense.amount
        with == roundTrip.before \cup {roundTrip.expense}
    IN  /\ roundTrip.phase = "created"
           => /\ stored = ((a + 5) \div 10) * 10
              /\ \A rows \in list(expenses) :
                    \E i \in DOMAIN rows : rows[i] = roundTrip.expense
              /\ total(expenses).n = total(roundTrip.before).n + stored
        /\ roundTrip.phase = "deleted"
           => /\ list(expenses) = list(roundTrip.before)
              /\ \A rows \in list(expenses) :
                    \A i \in DOMAIN rows : rows[i].id # roundTrip.expense.id
              /\ total(expenses) = total(roundTrip.before)
              /\ total(expenses).n = total(with).n - stored

C14_Witness ==
    /\ roundTrip.phase = "deleted"
    /\ roundTrip.before # {}
    /\ roundTrip.amount = Num(1005)
    /\ roundTrip.expense.amount = 1010
    /\ last.op = "delete"
    /\ last.status = 200
    /\ last.id = roundTrip.expense.id


\* C15: in each of the four operations, the step in which a persistence query
\* fails sends 500 with that operation's fixed message, leaves the stored
\* records as they were and ends the handler: the request has issued the
\* failed query and nothing after it (one query, or in delete the existence
\* check alone or the check and the one DELETE), and issues none later.
C15_PersistenceFailure ==
    [][(last' # last /\ last'.threw)
       => /\ last'.status = 500
          /\ last'.error =
                CASE last'.op = "create" -> "Failed to add expense to database"
                  [] last'.op = "list" -> "Failed to fetch expenses from database"
                  [] last'.op = "total" -> "Failed to calculate total spending"
                  [] last'.op = "delete" -> "Failed to delete expense from database"
          /\ expenses' = expenses
          /\ last'.table = expenses
          /\ \E c \in Clients :
                /\ inflight[c].op = last'.op
                /\ inflight[c].pc # "idle"
                /\ inflight' = [inflight EXCEPT ![c] = Idle]
                /\ last'.queries = inflight[c].queries
                /\ Len(last'.queries) = IF inflight[c].pc = "delete" THEN 2 ELSE 1]_vars

C15_Witness ==
    /\ last.op = "delete"
    /\ last.threw
    /\ last.status = 500
    /\ Len(last.queries) = 1
    /\ \E r \in expenses : r.id = last.queries[1].params[1]


\* C16: every create, list, total and delete request, for every input and
\* every outcome of its queries, produces exactly one response.  Not two: a
\* step sends at most one response, the response is for a request that this
\* very step ends, and a step that ends a request sends its response.  Not
\* zero: a request that has not been answered yet is at an await whose
\* outcome, whichever it is, lets the handler take its next step.
C16_ExactlyOneResponse ==
    /\ [](\A c \in Clients :
            (inflight[c].pc # "idle" /\ last = NoResponse)
            => /\ inflight[c].pc \in {"insert", "select", "sum", "check", "delete"}
               /\ ENABLED (\/ InsertExec(c) \/ ListExec(c) \/ TotalExec(c)
                           \/ CheckExec(c) \/ DeleteExec(c)))
    /\ [][/\ \A c \in Clients :
               (inflight[c].pc # "idle" /\ inflight'[c].pc = "idle")
               => (last = NoResponse /\ last' # NoResponse /\ last'.op = inflight[c].op)
          /\ \A c \in Clients :
               (inflight[c].pc = "idle" /\ inflight'[c].pc = "idle")
               => inflight'[c] = inflight[c]
          /\ (last' # last /\ last' # NoResponse)
             => /\ last = NoResponse
                /\ last'.status \in {200, 201, 400, 404, 500}
                /\ Cardinality({c \in Clients : inflight'[c] # inflight[c]}) <= 1
                /\ \A c \in Clients :
                      inflight'[c] # inflight[c] => inflight'[c] = Idle]_vars

C16_Witness ==
    /\ last.op = "create"
    /\ last.itemName = Num(7000)
    /\ last.status = 500
    /\ ~last.threw
    /\ last.queries = <<>>
    /\ \A c \in Clients : inflight[c].pc = "idle"


\* C17: when a delete request's existence check has found the record and a
\* concurrent delete request removes that record before this request's
\* DELETE statement runs, the DELETE, unless it throws, affects zero rows and
\* removes no record of another id, and the request still answers 200 with
\* the id.
C17_LateDeleteTolerated ==
    [][(\E c \in Clients :
          /\ inflight[c].pc = "delete"
          /\ inflight'[c].pc = "idle"
          /\ inflight[c].queries[2].params[1] \in deleted
          /\ ~last'.threw)
       => /\ last'.op = "delete"
          /\ last'.status = 200
          /\ last'.error = ""
          /\ \E c \in Clients :
                /\ inflight[c].pc = "delete"
                /\ inflight'[c].pc = "idle"
                /\ last'.id = parseInt(inflight[c].id).n
                /\ last'.id = inflight[c].queries[2].params[1]
          /\ last'.rowCount = 0
          /\ expenses' = expenses]_vars

C17_Witness ==
    /\ last.op = "delete"
    /\ last.status = 200
    /\ last.rowCount = 0
    /\ last.id = 1
    /\ Len(last.queries) = 2
    /\ last.table # {}
    /\ 1 \in deleted


\* C18: each id goes nonexistent -> active -> deleted and stays deleted: no
\* two stored records share an id, an id becomes active only when the
\* sequence hands it out for the first time, a deleted id is never active
\* again, and the existence check of a delete request for a deleted id,
\* unless it throws, answers 404.
C18_IdLifecycle ==
    /\ [](/\ \A r1, r2 \in expenses : r1.id = r2.id => r1 = r2
          /\ \A r \in expenses : r.id \in 1..(expenses_id_seq - 1) /\ r.id \notin deleted
          /\ deleted \subseteq 1..(expenses_id_seq - 1))
    /\ [][/\ deleted \subseteq deleted'
          /\ \A r \in expenses' : r \in expenses \/ r.id = expenses_id_seq
          /\ \A r \in expenses : r \in expenses' \/ r.id \in deleted'
          /\ \A c \in Clients :
                (/\ inflight[c].pc = "check"
                 /\ inflight'[c] # inflight[c]
                 /\ inflight[c].queries[1].params[1] \in deleted
                 /\ ~last'.threw)
                => (/\ last'.status = 404
                    /\ last'.error = "Expense not found"
                    /\ inflight'[c].pc = "idle"
                    /\ expenses' = expenses)]_vars

C18_Witness ==
    /\ last.op = "delete"
    /\ last.status = 404
    /\ last.idParam = <<"1">>
    /\ deleted = {1}
    /\ expenses_id_seq = 3
    /\ \E r \in expenses : r.id = 2


\* C19: a list or total request whose filter is a non-empty value outside the
\* fixed set of categories is not rejected and its filter is not turned into
\* 'Other': the value goes into the query as it came, the request is answered
\* 200 unless the query throws, and since no stored record has that category
\* the list is empty and the total 0, also while records of category 'Other'
\* exist.
C19_ReadFilterNotNormalized ==
    (/\ last.op \in {"list", "total"}
     /\ last.category.t = "string"
     /\ last.category.s # <<>>
     /\ last.category.s \notin {<<"F", "o", "o", "d">>,
                                <<"T", "r", "a", "n", "s", "p", "o", "r", "t">>,
                                <<"E", "n", "t", "e", "r", "t", "a", "i", "n", "m", "e", "n", "t">>,
                                <<"S", "h", "o", "p", "p", "i", "n", "g">>,
                                <<"B", "i", "l", "l", "s">>,
                                <<"O", "t", "h", "e", "r">>})
    => /\ Len(last.queries) = 1
       /\ last.queries[1].params = <<last.category>>
       /\ last.status = IF last.threw THEN 500 ELSE 200
       /\ last.status = 200
          => /\ last.op = "list" => last.rows = <<>>
             /\ last.op = "total" => last.total = Num(0)

C19_Witness ==
    /\ last.op = "list"
    /\ last.category = Str(<<"P", "e", "t", "s">>)
    /\ last.status = 200
    /\ last.rows = <<>>
    /\ \E r \in last.table : r.category = <<"O", "t", "h", "e", "r">>


\* C20: a create request with a valid itemName is accepted only if its amount
\* parses to a finite number >= 0; an amount that is present but does not
\* parse to a finite number, an infinite one included, is answered 400 and
\* issues no INSERT.
C20_NonFiniteAmountRejected ==
    LET numAmount == parseFloat(last.amount)
    IN  (/\ last.op = "create"
         /\ last.itemName.t = "string"
         /\ \E i \in DOMAIN last.itemName.s : last.itemName.s[i] \notin {" ", "\t"}
         /\ last.amount \notin {Undefined, Null})
        => /\ last.status = 201 => (numAmount.k = "finite" /\ numAmount.n >= 0)
           /\ numAmount.k # "finite" => (last.status = 400 /\ last.queries = <<>>)


\* C21: the create handler validates item name, then amount present, then
\* amount numeric and non-negative, and the first failing check alone makes
\* the response: an absent, empty or blank itemName gets the item-name error
\* whatever the amount is, and a valid itemName with an absent amount gets
\* 'Amount is required', not the positive-number error.
C21_FirstFailingCheckWins ==
    LET name == last.itemName
        blank ==
            \/ name.t \in {"undefined", "null"}
            \/ name.t = "string" /\ \A i \in DOMAIN name.s : name.s[i] \in {" ", "\t"}
        valid ==
            name.t = "string" /\ \E i \in DOMAIN name.s : name.s[i] \notin {" ", "\t"}
    IN  last.op = "create"
        => /\ blank => (/\ last.status = 400
                        /\ last.error = "Item name is required and cannot be empty"
                        /\ last.queries = <<>>)
           /\ (valid /\ last.amount.t \in {"undefined", "null"})
                   => (/\ last.status = 400
                       /\ last.error = "Amount is required"
                       /\ last.queries = <<>>)
           /\ last.error = "Amount must be a positive number"
                   => (valid /\ last.amount.t \notin {"undefined", "null"})

C21_Witness ==
    /\ last.op = "create"
    /\ last.itemName = Str(<<"\t", " ">>)
    /\ last.amount = Str(<<"a", "b", "c">>)
    /\ last.status = 400
    /\ last.error = "Item name is required and cannot be empty"


\* C22: every create request with malformed required input (an itemName that
\* is absent, blank or present but no string, or an absent amount) is
\* answered 400 and issues no query.
C22_MalformedInputRejected ==
    LET name == last.itemName
        malformedName ==
            \/ name.t # "string"
            \/ \A i \in DOMAIN name.s : name.s[i] \in {" ", "\t"}
    IN  (last.op = "create" /\ (malformedName \/ last.amount.t \in {"undefined", "null"}))
        => (last.status = 400 /\ last.queries = <<>>)


\* C23: among rows with equal created_at a list request returns the rows in
\* insertion order, the row inserted first (the lower id) before the other,
\* on every list request.
C23_TiesInInsertionOrder ==
    (last.op = "list" /\ last.status = 200)
    => \A i, j \in DOMAIN last.rows :
          (i < j /\ last.rows[i].created_at = last.rows[j].created_at)
          => last.rows[i].id < last.rows[j].id


\* C24: submitting the form with an item name that is empty or only white
\* space, or with an amount that does not parse to a number >= 0 (the empty
\* amount field included), shows a validation error and sends nothing; so no
\* POST is ever in flight with a blank item name or without a number >= 0.
C24_InvalidFormNotPosted ==
    /\ [][LET numAmount == parseFloat(Str(app.amount))
               blank == \A i \in DOMAIN app.itemName : app.itemName[i] \in {" ", "\t"}
               unparsed ==
                   numAmount.k = "NaN" \/ (numAmount.k = "finite" /\ numAmount.n < 0)
           IN  (handleSubmit /\ (blank \/ unparsed))
               => /\ app'.error \in {"Item name cannot be empty",
                                     "Amount must be a positive number"}
                  /\ ~app'.loading
                  /\ requests' = requests]_vars
    /\ [](\A r \in BagToSet(requests) :
            r.method = "POST"
            => /\ \E i \in DOMAIN r.body.itemName : r.body.itemName[i] \notin {" ", "\t"}
               /\ r.body.amount.k # "NaN"
               /\ r.body.amount.n >= 0)

C24_Witness ==
    /\ app.itemName = <<"t", "e", "a">>
    /\ app.amount = <<>>
    /\ app.error = "Amount must be a positive number"
    /\ \A r \in BagToSet(requests) : r.method = "GET"


\* C25: when a POST or a DELETE of the page is answered ok, one list fetch
\* and one total fetch are issued with the filter that is selected at that
\* moment, and the selected filter stays as it is; when the POST or DELETE
\* fails no fetch is issued.
C25_RefreshUsesSelectedFilter ==
    [][\A r \in BagToSet(requests) :
         /\ (SubmitDone(r, "ok") \/ DeleteDone(r, "ok"))
            => /\ app'.filterCategory = app.filterCategory
               /\ requests' = (requests (-) SetToBag({r}))
                                 (+) SetToBag({fetchExpenses(app.filterCategory),
                                               fetchTotal(app.filterCategory)})
         /\ (SubmitDone(r, "refused") \/ DeleteDone(r, "refused"))
            => /\ app'.filterCategory = app.filterCategory
               /\ requests' = requests (-) SetToBag({r})]_vars


\* C26: while a create POST is in flight loading is true, the inputs and the
\* submit button are disabled (the form fields keep their values and no
\* second POST is sent), so at most one POST is in flight; and whenever the
\* POST is answered ok, is refused by the server or fails on the network,
\* loading is false again.
C26_OnePostInFlight ==
    /\ [](/\ \A r1, r2 \in BagToSet(requests) :
                (r1.method = "POST" /\ r2.method = "POST") => r1 = r2
          /\ \A r \in BagToSet(requests) : r.method = "POST" => CopiesIn(r, requests) = 1
          /\ app.loading <=> \E r \in BagToSet(requests) : r.method = "POST")
    /\ [][/\ \A r \in BagToSet(requests) :
               (\/ SubmitDone(r, "ok") \/ SubmitDone(r, "refused") \/ SubmitDone(r, "failed"))
               => (/\ ~app'.loading
                   /\ \A q \in BagToSet(requests') : q.method # "POST")
          /\ (app.loading /\ app'.loading)
               => (/\ app'.itemName = app.itemName
                   /\ app'.amount = app.amount
                   /\ app'.category = app.category
                   /\ \A q \in BagToSet(requests') :
                         q.method = "POST" => BagIn(q, requests))]_vars

C26_Witness ==
    /\ ~app.loading
    /\ app.error = "Failed to fetch"
    /\ app.itemName = <<"t", "e", "a">>
    /\ app.amount = <<"5">>
    /\ \A r \in BagToSet(requests) : r.method # "POST"


\* C27: in every state of the page exactly one of three views is shown below
\* the filter: the fetch error (fetchError set), the empty state (no
\* fetchError, no expenses), or the total together with the list (no
\* fetchError, at least one expense); the total is never shown over an empty
\* list.
C27_ExactlyOneView ==
    /\ Cardinality({view \in {"fetchError", "emptyState", "totalAndList"} :
            \/ view = "fetchError" /\ ShowsFetchError(app)
            \/ view = "emptyState" /\ ShowsEmptyState(app)
            \/ view = "totalAndList" /\ ShowsTotalAndList(app)}) = 1
    /\ ShowsFetchError(app) <=> app.fetchError # ""
    /\ ShowsEmptyState(app) <=> (app.fetchError = "" /\ app.expenses = <<>>)
    /\ ShowsTotalAndList(app) <=> (app.fetchError = "" /\ app.expenses # <<>>)

C27_Witness ==
    /\ app.fetchError = "Failed to fetch expenses from database"
    /\ app.expenses # <<>>
    /\ app.totalSpending = 5000
    /\ ShowsFetchError(app)
    /\ ~ShowsTotalAndList(app)


\* C28: the answer to a list or total fetch that was issued for a filter
\* other than the one selected when the answer arrives never overwrites the
\* displayed list or the displayed total.
C28_StaleAnswerDropped ==
    [][/\ \A r \in BagToSet(requests), data \in {<<>>, <<Listed(1)>>} :
             (FetchExpensesDone(r, "ok", data) /\ r.filterCategory # app.filterCategory)
             => app'.expenses = app.expenses
       /\ \A r \in BagToSet(requests), total \in {0, 5000} :
             (FetchTotalDone(r, "ok", total) /\ r.filterCategory # app.filterCategory)
             => app'.totalSpending = app.totalSpending]_vars


\* C29: list and total requests and every request answered 400 or 404 leave
\* the stored records as they are; a successful create adds exactly one
\* record; a successful delete removes at most the record with the given id;
\* and no step changes a field of a record that stays stored.
C29_Frame ==
    [][/\ \A r1 \in expenses, r2 \in expenses' : r1.id = r2.id => r1 = r2
       /\ expenses' # expenses
          => (last' # last /\ last'.status \in {200, 201} /\ last'.op \in {"create", "delete"})
       /\ (last' # last /\ last' # NoResponse)
          => /\ (last'.op \in {"list", "total"} \/ last'.status \in {400, 404})
                => expenses' = expenses
             /\ last'.status = 201
                => /\ last'.expense \notin expenses
                   /\ expenses' = expenses \cup {last'.expense}
             /\ (last'.op = "delete" /\ last'.status = 200)
                => /\ expenses' \subseteq expenses
                   /\ \A r \in expenses \ expenses' : r.id = last'.id
                   /\ Cardinality(expenses \ expenses') <= 1]_vars

C29_Witness ==
    /\ last.op = "delete"
    /\ last.status = 200
    /\ last.rowCount = 1
    /\ last.id = 1
    /\ \E r \in expenses : r.id = 2
    /\ last.table = expenses


====
